---- MODULE Spec2Model ----
(***************************************************************************)
(* Model of sqlitedict: SqliteMultithread (the worker thread that owns the *)
(* sqlite connection and serves a FIFO of requests), and the SqliteDb /    *)
(* SqliteDict mapping built on it.                                         *)
(*                                                                         *)
(* One store handle, its worker thread and a fixed set of caller threads.  *)
(* Every caller step that touches shared state (the request queue, the     *)
(* exception slot, a result queue) is one action; the worker's loop is cut *)
(* at each point where a caller can observe or influence it.               *)
(***************************************************************************)
EXTENDS Integers, Sequences, FiniteSets, TLC

(* ---------------- bounds of the model ---------------- *)

\* API calls the caller threads make, all together, after construction.
MaxCalls == 2

\* Caller threads.  "A" is the thread that constructs the handle.
Callers == {"A", "B"}

Keys == {"k1", "k2"}

Values == {1, 2}

(* ---------------- program constants ---------------- *)

_REQUEST_CLOSE == "--close--"

_REQUEST_COMMIT == "--commit--"

_RESPONSE_NO_MORE == "--no more--"

\* SqliteDb.VALID_FLAGS (sqlitedb.py line 20).  Line 29 reads the list as
\* BaseSqlite.VALID_FLAGS and line 63 names SqliteMultithread, and sqlitedb.py
\* binds neither name; the model takes both to resolve to the classes of the
\* repository, so that a handle can be constructed at all.
VALID_FLAGS == {"c", "r", "w", "n"}

\* sqlitemultithread.py imports logging, sqlite3, threading, traceback,
\* weakref and Queue, and never imports sys: the name `sys` used by the three
\* exception handlers (lines 62, 73, 99) is unbound, so evaluating
\* `sys.exc_info()` raises NameError inside the handler.
sys_imported == FALSE

\* A statement the sqlite engine rejects (raw SQL given to the engine API).
BOGUS == "BOGUS"

None == "None"

\* the res_ref of a request that carries no result queue (Python's None)
NoneRef == 0

VARIABLES
    flag,        \* SqliteDb.flag
    autocommit,  \* SqliteDb.autocommit / SqliteMultithread.autocommit
    connectOK,   \* input: whether sqlite3.connect and the PRAGMAs succeed
    lockHeld,    \* SqliteMultithread._lock, acquired in __init__, released by run
    exception,   \* SqliteMultithread.exception
    reqs,        \* SqliteMultithread.reqs, the request queue
    sinks,       \* result queues, one entry per request ever enqueued
    wpc,         \* position of the worker thread in run()
    cur,         \* the request the worker holds (req, arg, res_ref)
    rows,        \* rows of the cursor not yet delivered
    conn,        \* the sqlite connection: "none", "open", "closed"
    table,       \* rows of the table as the connection sees them, by rowid
    committed,   \* rows of the table in the file (last commit)
    handle,      \* SqliteDb.conn: "engine" or None
    fileExists,  \* whether the backing file exists
    c,           \* per caller: the API call in progress
    out,         \* per caller: outcome of its last completed call
    budget,      \* per caller: API calls it has still to make
    h            \* history: what the worker and the callers have done

vars == <<flag, autocommit, connectOK, lockHeld, exception, reqs, sinks, wpc,
          cur, rows, conn, table, committed, handle, fileExists, c, out,
          budget, h>>

(* ---------------- values and conversions ---------------- *)

\* sqlitedict.encode: pickle the value into a blob
encode(obj) == [pickle |-> obj]

\* sqlitedict.decode: unpickle a blob
decode(obj) == obj.pickle

\* sqlitedict.identity, the default encode_key / decode_key
identity(obj) == obj

\* one row of the table
Row(k, b) == [key |-> k, value |-> b]

RECURSIVE Without(_, _)
\* the rows of tbl whose key is not k, order kept
Without(tbl, k) ==
    IF tbl = <<>> THEN <<>>
    ELSE IF Head(tbl).key = k THEN Without(Tail(tbl), k)
         ELSE <<Head(tbl)>> \o Without(Tail(tbl), k)

RECURSIVE Select(_, _)
\* the rows of tbl whose key is k, order kept
Select(tbl, k) ==
    IF tbl = <<>> THEN <<>>
    ELSE IF Head(tbl).key = k THEN <<Head(tbl)>> \o Select(Tail(tbl), k)
         ELSE Select(Tail(tbl), k)

HasKey(tbl, k) == \E i \in 1..Len(tbl) : tbl[i].key = k

\* a result row as delivered to a result queue, and the end marker
Rec(cells) == [more |-> TRUE, row |-> cells]

NoMore == [more |-> FALSE, row |-> <<_RESPONSE_NO_MORE>>]

(* ---------------- the sqlite engine (external collaborator) ---------------- *)

\* Statements the mapping submits, named as the constants of sqlitedict.py
Statements == {"CREATE_TABLE_SQL", "INDEX_CMD", "GET_KEYS", "HAS_ITEM",
               "GET_ITEM", "ADD_ITEM", "DEL_ITEM", "UPDATE_ITEMS", "CLEAR_ALL"}

\* statements that change rows
Writes == {"ADD_ITEM", "DEL_ITEM", "UPDATE_ITEMS", "CLEAR_ALL"}

RECURSIVE Project(_, _)
\* one result row per table row: the key column, the value column, or 1
Project(tbl, col) ==
    IF tbl = <<>> THEN <<>>
    ELSE <<Rec(<<IF col = "key" THEN Head(tbl).key
                 ELSE IF col = "value" THEN Head(tbl).value
                 ELSE 1>>)>> \o Project(Tail(tbl), col)

\* cursor.execute(req, arg) on table tbl: whether it raises, the table after
\* it and the rows the cursor then yields
cursor_execute(req, arg, tbl) ==
    CASE req = "CREATE_TABLE_SQL" -> [ok |-> TRUE, table |-> tbl, rows |-> <<>>]
      [] req = "INDEX_CMD" -> [ok |-> TRUE, table |-> tbl, rows |-> <<>>]
      [] req \in {"ADD_ITEM", "UPDATE_ITEMS"} ->
            [ok |-> TRUE,
             table |-> Without(tbl, arg[1]) \o <<Row(arg[1], arg[2])>>,
             rows |-> <<>>]
      [] req = "DEL_ITEM" ->
            [ok |-> TRUE, table |-> Without(tbl, arg[1]), rows |-> <<>>]
      [] req = "CLEAR_ALL" -> [ok |-> TRUE, table |-> <<>>, rows |-> <<>>]
      [] req = "GET_ITEM" ->
            [ok |-> TRUE, table |-> tbl,
             rows |-> Project(Select(tbl, arg[1]), "value")]
      [] req = "HAS_ITEM" ->
            [ok |-> TRUE, table |-> tbl,
             rows |-> Project(Select(tbl, arg[1]), "one")]
      [] req = "GET_KEYS" ->
            [ok |-> TRUE, table |-> tbl, rows |-> Project(tbl, "key")]
      [] OTHER -> [ok |-> FALSE, table |-> tbl, rows |-> <<>>]

(* ---------------- requests, result queues ---------------- *)

\* a tuple put on self.reqs; id is its position in the order of enqueueing,
\* res_ref is None or a weak reference to result queue number id
Request(id, req, arg, res_ref, by) ==
    [id |-> id, req |-> req, arg |-> arg, res_ref |-> res_ref, by |-> by]

NoRequest == Request(0, None, <<>>, NoneRef, None)

\* a result queue: alive while its caller holds it
Queue == [alive |-> TRUE, items |-> <<>>]

Dropped == [alive |-> FALSE, items |-> <<>>]

\* a _put that does not look whether the queue is still there
_put_unchecked(queue_reference, item) ==
    IF queue_reference # NoneRef
    THEN [ret |-> 0,
          sinks |-> [sinks EXCEPT ![queue_reference].items = Append(@, item)]]
    ELSE [ret |-> 2, sinks |-> sinks]

\* _put(queue_reference, item): the return code and the result queues after it
_put(queue_reference, item) ==
    IF queue_reference # NoneRef
    THEN IF ~sinks[queue_reference].alive
         THEN [ret |-> 1, sinks |-> sinks]
         ELSE [ret |-> 0,
               sinks |-> [sinks EXCEPT ![queue_reference].items = Append(@, item)]]
    ELSE [ret |-> 2, sinks |-> sinks]

(* ---------------- caller-side call lists ---------------- *)

\* one engine-level step a caller has still to perform
Call(fn, req, arg) == [fn |-> fn, req |-> req, arg |-> arg, attr |-> FALSE]

\* calls reached through one evaluation of self.conn in SqliteDb / SqliteDict:
\* the first of them fails with AttributeError once self.conn is None
Via(calls) == [i \in 1..Len(calls) |-> [calls[i] EXCEPT !.attr = (i = 1)]]

\* SqliteMultithread.commit(blocking)
commit(blocking) ==
    IF blocking THEN <<Call("select_one", _REQUEST_COMMIT, <<>>)>>
    ELSE <<Call("execute", _REQUEST_COMMIT, <<>>)>>

\* a close that does not join the worker thread
close_no_join(force) ==
    IF force THEN <<Call("reqs_put", _REQUEST_CLOSE, <<>>)>>
    ELSE <<Call("select_one", _REQUEST_CLOSE, <<>>)>>

\* a close whose forced request carries no reference to a result queue
close_unanswerable(force) ==
    IF force THEN <<Call("execute", _REQUEST_CLOSE, <<>>)>>
    ELSE <<Call("select_one", _REQUEST_CLOSE, <<>>), Call("join", None, <<>>)>>

\* SqliteMultithread.close(force)
close(force) ==
    IF force THEN <<Call("reqs_put", _REQUEST_CLOSE, <<>>)>>
    ELSE <<Call("select_one", _REQUEST_CLOSE, <<>>), Call("join", None, <<>>)>>

RECURSIVE executemany_backwards(_, _)
\* an executemany that submits the items last to first
executemany_backwards(req, items) ==
    IF items = <<>> THEN <<Call("check_raise_error", None, <<>>)>>
    ELSE <<Call("execute", req, items[Len(items)])>>
         \o executemany_backwards(req, SubSeq(items, 1, Len(items) - 1))

RECURSIVE executemany(_, _)
\* SqliteMultithread.executemany(req, items)
executemany(req, items) ==
    IF items = <<>> THEN <<Call("check_raise_error", None, <<>>)>>
    ELSE <<Call("execute", req, Head(items))>> \o executemany(req, Tail(items))

\* a commit that does not wait for the worker
SqliteDb_commit_nowait == <<Call("execute", _REQUEST_COMMIT, <<>>)>>

\* SqliteDb.commit / sync: looks at self.conn when it runs
SqliteDb_commit == <<Call("SqliteDb.commit", _REQUEST_COMMIT, <<>>)>>

\* a clear that commits and deletes nothing
clear_no_delete == Via(commit(TRUE)) \o Via(commit(TRUE))

\* SqliteDict.clear after its flag check
clear ==
    Via(commit(TRUE)) \o Via(<<Call("execute", "CLEAR_ALL", <<>>)>>)
    \o Via(commit(TRUE))

\* a constructor that looks the table up with every flag
SqliteDb_init_lookup(fl, ac) ==
    <<Call("get_tablenames", None, <<>>)>>
    \o (IF fl = "r" THEN <<>>
        ELSE Via(<<Call("execute", "CREATE_TABLE_SQL", <<>>)>>)
             \o Via(<<Call("execute", "INDEX_CMD", <<>>)>>))

\* SqliteDb.__init__ from line 49 on, after self.conn = self._new_conn()
SqliteDb_init(fl, ac) ==
    IF fl = "r" THEN <<Call("get_tablenames", None, <<>>)>>
    ELSE Via(<<Call("execute", "CREATE_TABLE_SQL", <<>>)>>)
         \o Via(<<Call("execute", "INDEX_CMD", <<>>)>>)
         \o (IF ac THEN Via(commit(TRUE)) ELSE <<>>)
         \o (IF fl = "w" THEN clear ELSE <<>>)

\* a caller thread's call in progress: the method, its arguments, the steps
\* still to do, and where it stands in the current one
Frame(op, args, pend) ==
    [op |-> op, args |-> args, pend |-> pend, st |-> "run", rid |-> 0,
     got |-> <<>>]

Idle == Frame("idle", <<>>, <<>>)

\* how a call ended: kind is "return" or "raise"
Outcome(op, args, kind, val) ==
    [op |-> op, args |-> args, kind |-> kind, val |-> val]

(* ---------------- history ---------------- *)

\* h records what has happened, for the properties below; no action reads it
\* except to number the requests (nreq).
\*   nreq      requests enqueued so far
\*   started   id of the request the worker began last
\*   finished  id of the request the worker completed last
\*   nfail     statements that raised on the worker
\*   failedBy  caller of the last statement that raised on the worker
\*   nraise    statement errors re-raised by check_raise_error
\*   owed      a statement has raised on the worker and no check_raise_error
\*             has re-raised since
\*   check     per caller, its latest check_raise_error made while a failure
\*             was owed: where it was made and whether it re-raised
\*   wr        per key, <<caller, value>> when the last write enqueued for the
\*             key is the REPLACE of a __setitem__, <<>> otherwise
\*   exp       per caller, <<v>> when its __getitem__ in progress was enqueued
\*             after the returned __setitem__ of v by another caller
\*   solo      only the constructing thread has used the handle
\*   dict      while solo: per key, <<v>> or <<>> as the calls that returned
\*             so far leave it
\*   order     while solo: the keys present, in the order of the calls that
\*             wrote them last
History(rows0) ==
    [nreq |-> 0, started |-> 0, finished |-> 0, nfail |-> 0, failedBy |-> None,
     nraise |-> 0, owed |-> FALSE,
     check |-> [t \in Callers |-> [at |-> None, raised |-> FALSE]],
     wr |-> [k \in Keys |-> <<>>],
     exp |-> [t \in Callers |-> <<>>],
     solo |-> TRUE,
     dict |-> [k \in Keys |->
                 IF HasKey(rows0, k) THEN <<decode(Select(rows0, k)[1].value)>>
                 ELSE <<>>],
     order |-> [i \in 1..Len(rows0) |-> rows0[i].key]]

Void == [k \in Keys |-> <<>>]

\* history after the statement of request req has raised on the worker
Failed(hh, req) ==
    [hh EXCEPT !.started = req.id, !.nfail = @ + 1, !.failedBy = req.by,
               !.owed = TRUE,
               !.check = [t \in Callers |-> [at |-> None, raised |-> FALSE]]]

(* ---------------- initial state ---------------- *)

\* what the file may hold when the handle is constructed
InitialRows == {<<>>, <<Row("k1", encode(1))>>}

\* the ways MaxCalls calls are shared out among the caller threads
Budgets == {b \in [Callers -> 0..MaxCalls] : b["A"] + b["B"] = MaxCalls}

\* SqliteDb.__init__ has run to line 49: the engine object exists, its thread
\* is started and holds the lock, and thread "A" goes on with the constructor
ConstructingOver(files) ==
    /\ flag \in VALID_FLAGS
    /\ autocommit \in BOOLEAN
    /\ connectOK \in BOOLEAN
    /\ lockHeld = TRUE
    /\ exception = None
    /\ reqs = <<>>
    /\ sinks = <<>>
    /\ wpc = "connect"
    /\ cur = NoRequest
    /\ rows = <<>>
    /\ conn = "none"
    /\ committed \in (IF flag = "n" THEN {<<>>} ELSE files)
    /\ table = committed
    /\ handle = "init"
    /\ fileExists = TRUE
    /\ c = [t \in Callers |->
              IF t = "A"
              THEN Frame("__init__", <<>>, SqliteDb_init(flag, autocommit))
              ELSE Idle]
    /\ out = [t \in Callers |-> Outcome("none", <<>>, "none", None)]
    /\ h = History(IF flag \in {"w", "n"} THEN <<>> ELSE committed)

Constructing == ConstructingOver(InitialRows)

Init == Constructing /\ budget \in Budgets

(* ---------------- the worker thread: SqliteMultithread.run ---------------- *)

\* lines 79-82: conn, cursor = self._connect(), then release the lock.  A
\* failure runs a handler of _connect, which evaluates sys.exc_info(); the
\* handler re-raises either way, so the thread ends with the lock released.
run_connect ==
    /\ wpc = "connect"
    /\ lockHeld' = FALSE
    /\ IF connectOK
       THEN /\ conn' = "open"
            /\ wpc' = "get"
            /\ UNCHANGED exception
       ELSE /\ wpc' = "dead"
            /\ exception' = IF sys_imported THEN "OperationalError" ELSE exception
            /\ UNCHANGED conn
    /\ UNCHANGED <<flag, autocommit, connectOK, reqs, sinks, cur, rows, table,
                   committed, handle, fileExists, c, out, budget, h>>

\* a queue that hands out the request enqueued last
reqs_get_lifo ==
    [item |-> reqs[Len(reqs)], rest |-> SubSeq(reqs, 1, Len(reqs) - 1)]

\* reqs.get(): the request handed to the worker and the queue left behind
reqs_get == [item |-> Head(reqs), rest |-> Tail(reqs)]

\* one turn of the loop up to the delivery of rows (lines 86-117): reqs.get()
\* and then
\*   --close--   leave the loop (an AssertionError ends the thread when the
\*               request carries no res_ref);
\*   --commit--  conn.commit() and the end marker;
\*   otherwise   cursor.execute(req, arg) and, when it raises, the handler of
\*               lines 97-116, which evaluates sys.exc_info().
\* With isolation_level=None (autocommit) sqlite commits each statement as it
\* runs.  Without a res_ref the turn ends here (lines 118, 124-125).
run_request ==
    /\ wpc = "get"
    /\ reqs # <<>>
    /\ LET req == reqs_get.item
           r == cursor_execute(req.req, req.arg, table)
       IN
       /\ cur' = req
       /\ reqs' = reqs_get.rest
       /\ IF req.req = _REQUEST_CLOSE
          THEN /\ wpc' = IF req.res_ref # NoneRef THEN "close" ELSE "dead"
               /\ h' = [h EXCEPT !.started = req.id]
               /\ UNCHANGED <<exception, sinks, rows, table, committed>>
          ELSE IF req.req = _REQUEST_COMMIT
          THEN /\ committed' = table
               /\ sinks' = _put(req.res_ref, NoMore).sinks
               /\ wpc' = "get"
               /\ h' = [h EXCEPT !.started = req.id, !.finished = req.id]
               /\ UNCHANGED <<exception, rows, table>>
          ELSE IF r.ok
          THEN /\ table' = r.table
               /\ committed' = IF autocommit THEN r.table ELSE committed
               /\ rows' = IF req.res_ref # NoneRef THEN r.rows ELSE <<>>
               /\ wpc' = IF req.res_ref # NoneRef THEN "rows" ELSE "get"
               /\ h' = [h EXCEPT !.started = req.id,
                                 !.finished = IF req.res_ref # NoneRef THEN @
                                              ELSE req.id]
               /\ UNCHANGED <<exception, sinks>>
          ELSE IF sys_imported
          THEN /\ exception' = "OperationalError"
               /\ rows' = <<>>
               /\ wpc' = IF req.res_ref # NoneRef THEN "rows" ELSE "get"
               /\ h' = [Failed(h, req) EXCEPT
                           !.finished = IF req.res_ref # NoneRef THEN @
                                        ELSE req.id]
               /\ UNCHANGED <<sinks, table, committed>>
          ELSE /\ wpc' = "dead"
               /\ h' = Failed(h, req)
               /\ UNCHANGED <<exception, sinks, rows, table, committed>>
    /\ UNCHANGED <<flag, autocommit, connectOK, lockHeld, conn, handle,
                   fileExists, c, out, budget>>

\* a delivery that takes the rows of the cursor from the end
run_put_rec_backwards ==
    /\ wpc = "rows"
    /\ rows # <<>>
    /\ LET p == _put(cur.res_ref, rows[Len(rows)]) IN
       /\ sinks' = p.sinks
       /\ rows' = IF p.ret = 1 THEN <<>> ELSE SubSeq(rows, 1, Len(rows) - 1)
    /\ UNCHANGED <<flag, autocommit, connectOK, lockHeld, exception, reqs, wpc,
                   cur, conn, table, committed, handle, fileExists, c, out,
                   budget, h>>

\* lines 119-121: deliver one row, or stop at a result queue that is gone
run_put_rec ==
    /\ wpc = "rows"
    /\ rows # <<>>
    /\ LET p == _put(cur.res_ref, Head(rows)) IN
       /\ sinks' = p.sinks
       /\ rows' = IF p.ret = 1 THEN <<>> ELSE Tail(rows)
    /\ UNCHANGED <<flag, autocommit, connectOK, lockHeld, exception, reqs, wpc,
                   cur, conn, table, committed, handle, fileExists, c, out,
                   budget, h>>

\* lines 122-125: the end marker, then the commit of autocommit mode
run_put_no_more ==
    /\ wpc = "rows"
    /\ rows = <<>>
    /\ sinks' = _put(cur.res_ref, NoMore).sinks
    /\ committed' = IF autocommit THEN table ELSE committed
    /\ h' = [h EXCEPT !.finished = cur.id]
    /\ wpc' = "get"
    /\ UNCHANGED <<flag, autocommit, connectOK, lockHeld, exception, reqs, cur,
                   rows, conn, table, handle, fileExists, c, out, budget>>

\* line 128: conn.close(); what was not committed is rolled back
run_conn_close ==
    /\ wpc = "close"
    /\ conn' = "closed"
    /\ table' = committed
    /\ wpc' = "closed"
    /\ UNCHANGED <<flag, autocommit, connectOK, lockHeld, exception, reqs, sinks,
                   cur, rows, committed, handle, fileExists, c, out, budget, h>>

\* line 129: the end marker of the close request
run_close_put ==
    /\ wpc = "closed"
    /\ sinks' = _put(cur.res_ref, NoMore).sinks
    /\ h' = [h EXCEPT !.finished = cur.id]
    /\ wpc' = "exit"
    /\ UNCHANGED <<flag, autocommit, connectOK, lockHeld, exception, reqs, cur,
                   rows, conn, table, committed, handle, fileExists, c, out, budget>>

\* run() returns: the thread is no longer alive
run_return ==
    /\ wpc = "exit"
    /\ wpc' = "done"
    /\ UNCHANGED <<flag, autocommit, connectOK, lockHeld, exception, reqs, sinks,
                   cur, rows, conn, table, committed, handle, fileExists, c, out,
                   budget, h>>

\* the loop of run
run_loop ==
    \/ run_connect
    \/ run_request
    \/ run_put_rec
    \/ run_put_no_more

\* what follows the loop once a close request has ended it
run_end ==
    \/ run_conn_close
    \/ run_close_put
    \/ run_return

run == run_loop \/ run_end

(* ---------------- caller threads: steps of a call in progress ---------------- *)

Busy(t) == c[t].pend # <<>>

\* the step caller t is to perform next
Cur(t) == Head(c[t].pend)

\* self.conn is None where the step evaluates it
ConnIsNone(t) == Cur(t).attr /\ handle = None

RECURSIVE Updated(_, _)
\* the mapping d after the pairs of items have been written to it in order
Updated(d, items) ==
    IF items = <<>> THEN d
    ELSE Updated([d EXCEPT ![Head(items)[1]] = <<Head(items)[2]>>], Tail(items))

RECURSIVE Left(_, _)
\* the keys of ks other than k, order kept
Left(ks, k) ==
    IF ks = <<>> THEN <<>>
    ELSE IF Head(ks) = k THEN Left(Tail(ks), k)
         ELSE <<Head(ks)>> \o Left(Tail(ks), k)

RECURSIVE Written(_, _)
\* the keys ks after the pairs of items have been written in order
Written(ks, items) ==
    IF items = <<>> THEN ks
    ELSE Written(Append(Left(ks, Head(items)[1]), Head(items)[1]), Tail(items))

\* history after the call of caller t has ended with kind
Ended(hh, t, kind) ==
    IF ~(hh.solo /\ kind = "return") THEN hh
    ELSE [hh EXCEPT
            !.dict =
               CASE c[t].op = "__setitem__" ->
                       [@ EXCEPT ![c[t].args[1]] = <<c[t].args[2]>>]
                 [] c[t].op = "__delitem__" -> [@ EXCEPT ![c[t].args[1]] = <<>>]
                 [] c[t].op = "update" -> Updated(@, c[t].args)
                 [] c[t].op = "clear" -> Void
                 [] OTHER -> @,
            !.order =
               CASE c[t].op = "__setitem__" ->
                       Append(Left(@, c[t].args[1]), c[t].args[1])
                 [] c[t].op = "__delitem__" -> Left(@, c[t].args[1])
                 [] c[t].op = "update" -> Written(@, c[t].args)
                 [] c[t].op = "clear" -> <<>>
                 [] OTHER -> @]

\* the __setitem__ of key by caller t that enqueued its REPLACE is still running
Setting(t, key) ==
    /\ Busy(t)
    /\ c[t].op = "__setitem__"
    /\ c[t].args[1] = key
    /\ Cur(t).fn # "execute"

\* history after caller t has enqueued req with arg
Enqueued(hh, t, req, arg) ==
    [hh EXCEPT
       !.nreq = @ + 1,
       !.wr = CASE req = "ADD_ITEM" ->
                     [@ EXCEPT ![arg[1]] = <<t, decode(arg[2])>>]
                [] req \in {"UPDATE_ITEMS", "DEL_ITEM"} ->
                     [@ EXCEPT ![arg[1]] = <<>>]
                [] req = "CLEAR_ALL" -> Void
                [] OTHER -> @,
       !.exp = IF req = "GET_ITEM"
               THEN [@ EXCEPT ![t] =
                       IF /\ Len(hh.wr[arg[1]]) # 0
                          /\ hh.wr[arg[1]][1] # t
                          /\ ~Setting(hh.wr[arg[1]][1], arg[1])
                       THEN <<hh.wr[arg[1]][2]>>
                       ELSE <<>>]
               ELSE @]

\* check_raise_error re-raises: the slot holds a captured error
Raises == exception # None

\* history after a check_raise_error of caller t made at `at`
Checked(hh, t, at) ==
    [hh EXCEPT
       !.nraise = IF Raises /\ hh.owed THEN @ + 1 ELSE @,
       !.owed = IF Raises THEN FALSE ELSE @,
       !.check = IF hh.owed
                 THEN [@ EXCEPT ![t] = [at |-> at, raised |-> Raises]]
                 ELSE @]

\* the call of caller t ends: it returns val or raises val
Return(t, kind, val, hh) ==
    /\ c' = [c EXCEPT ![t] = Idle]
    /\ out' = [out EXCEPT ![t] = Outcome(c[t].op, c[t].args, kind, val)]
    /\ handle' = IF c[t].op = "__init__"
                 THEN (IF kind = "return" THEN "engine" ELSE "failed")
                 ELSE handle
    /\ h' = Ended(hh, t, kind)

\* the current step is done: on to the next one, or the call returns None
Continue(t, hh) ==
    IF Len(c[t].pend) = 1
    THEN Return(t, "return", None, hh)
    ELSE /\ c' = [c EXCEPT ![t] = [@ EXCEPT !.pend = Tail(@), !.st = "run",
                                             !.rid = 0]]
         /\ h' = hh
         /\ UNCHANGED <<out, handle>>

\* the request queue and result queues after reqs.put((req, arg, res_ref, stack))
\* by caller t; res_ref tells whether the request carries a weak reference,
\* and q is the result queue it then points to
reqs_put(t, req, arg, res_ref, q) ==
    /\ reqs' = Append(reqs, Request(h.nreq + 1, req, arg,
                                     IF res_ref THEN h.nreq + 1 ELSE NoneRef, t))
    /\ sinks' = Append(sinks, q)

\* SqliteMultithread.execute(req, arg): check_raise_error, then reqs.put
execute(t) ==
    /\ Busy(t) /\ c[t].st = "run" /\ Cur(t).fn = "execute"
    /\ ~ConnIsNone(t)
    /\ ~lockHeld
    /\ IF Raises
       THEN /\ exception' = None
            /\ Return(t, "raise", exception, Checked(h, t, "entry"))
            /\ UNCHANGED <<reqs, sinks>>
       ELSE /\ reqs_put(t, Cur(t).req, Cur(t).arg, FALSE, Dropped)
            /\ Continue(t, Enqueued(Checked(h, t, "entry"), t, Cur(t).req,
                                    Cur(t).arg))
            /\ UNCHANGED exception
    /\ UNCHANGED <<flag, autocommit, connectOK, lockHeld, wpc, cur, rows, conn,
                   table, committed, fileExists, budget>>

\* SqliteMultithread.select / select_one up to the first res.get(): a fresh
\* result queue, then execute(req, arg, res).  SqliteDb.commit does nothing
\* when self.conn is None and is conn.commit(), a select_one, otherwise.
select(t) ==
    /\ Busy(t) /\ c[t].st = "run"
    /\ Cur(t).fn \in {"select", "select_one", "SqliteDb.commit"}
    /\ ~ConnIsNone(t)
    /\ IF Cur(t).fn = "SqliteDb.commit" /\ handle = None
       THEN /\ Continue(t, h)
            /\ UNCHANGED <<exception, reqs, sinks>>
       ELSE /\ ~lockHeld
            /\ IF Raises
               THEN /\ exception' = None
                    /\ Return(t, "raise", exception, Checked(h, t, "entry"))
                    /\ UNCHANGED <<reqs, sinks>>
               ELSE /\ reqs_put(t, Cur(t).req, Cur(t).arg, TRUE, Queue)
                    /\ h' = Enqueued(Checked(h, t, "entry"), t, Cur(t).req,
                                     Cur(t).arg)
                    /\ c' = [c EXCEPT ![t] = [@ EXCEPT !.st = "recv",
                                                        !.rid = h.nreq + 1]]
                    /\ UNCHANGED <<exception, out, handle>>
    /\ UNCHANGED <<flag, autocommit, connectOK, lockHeld, wpc, cur, rows, conn,
                   table, committed, fileExists, budget>>

\* what the call of caller t makes of the rows r of its select_one or select:
\* lines 138-147 and 160-161 of sqlitedict.py, and lines 116-117 for keys
Result(t, r) ==
    CASE c[t].op = "__getitem__" ->
            IF Len(r) = 0 THEN [kind |-> "raise", val |-> "KeyError"]
            ELSE [kind |-> "return", val |-> decode(r[1][1])]
      [] c[t].op = "__contains__" -> [kind |-> "return", val |-> (Len(r) # 0)]
      [] c[t].op = "__delitem__" /\ Cur(t).req = "HAS_ITEM" ->
            IF Len(r) = 0 THEN [kind |-> "raise", val |-> "KeyError"]
            ELSE [kind |-> "next", val |-> None]
      [] c[t].op \in {"keys", "conn.select"} ->
            [kind |-> "return", val |-> [i \in 1..Len(r) |-> identity(r[i][1])]]
      [] OTHER -> [kind |-> "next", val |-> None]

\* one turn of the loop of select (lines 161-166): res.get(), check_raise_error,
\* then the end marker ends the sequence and a row is yielded; select_one
\* takes the first row and lets go of the generator and its queue
res_get(t) ==
    /\ Busy(t) /\ c[t].st = "recv"
    /\ sinks[c[t].rid].items # <<>>
    /\ LET rec == Head(sinks[c[t].rid].items)
           seen == IF rec.more THEN Append(c[t].got, rec.row) ELSE c[t].got
           res == Result(t, seen)
       IN
       IF Raises
       THEN /\ exception' = None
            /\ sinks' = [sinks EXCEPT ![c[t].rid] = Dropped]
            /\ Return(t, "raise", exception, Checked(h, t, "loop"))
       ELSE /\ UNCHANGED exception
            /\ IF rec.more /\ Cur(t).fn = "select"
               THEN /\ sinks' = [sinks EXCEPT ![c[t].rid].items = Tail(@)]
                    /\ c' = [c EXCEPT ![t].got = seen]
                    /\ h' = Checked(h, t, "loop")
                    /\ UNCHANGED <<out, handle>>
               ELSE /\ sinks' = [sinks EXCEPT ![c[t].rid] = Dropped]
                    /\ IF res.kind = "next" THEN Continue(t, Checked(h, t, "loop"))
                       ELSE Return(t, res.kind, res.val, Checked(h, t, "loop"))
    /\ UNCHANGED <<flag, autocommit, connectOK, lockHeld, reqs, wpc, cur, rows,
                   conn, table, committed, fileExists, budget>>

\* the check_raise_error that ends executemany (line 156)
check_raise_error(t) ==
    /\ Busy(t) /\ c[t].st = "run" /\ Cur(t).fn = "check_raise_error"
    /\ ~lockHeld
    /\ IF Raises
       THEN /\ exception' = None
            /\ Return(t, "raise", exception, Checked(h, t, "tail"))
       ELSE /\ Continue(t, Checked(h, t, "tail"))
            /\ UNCHANGED exception
    /\ UNCHANGED <<flag, autocommit, connectOK, lockHeld, reqs, sinks, wpc, cur,
                   rows, conn, table, committed, fileExists, budget>>

\* self.join() of close (line 185): returns once the worker thread has ended
join(t) ==
    /\ Busy(t) /\ c[t].st = "run" /\ Cur(t).fn = "join"
    /\ wpc \in {"done", "dead"}
    /\ Continue(t, h)
    /\ UNCHANGED <<flag, autocommit, connectOK, lockHeld, exception, reqs, sinks,
                   wpc, cur, rows, conn, table, committed, fileExists, budget>>

\* close(force=True), line 182: the close request is put without a check,
\* with a weak reference to a queue nothing else refers to
close_force(t) ==
    /\ Busy(t) /\ c[t].st = "run" /\ Cur(t).fn = "reqs_put"
    /\ ~ConnIsNone(t)
    /\ reqs_put(t, Cur(t).req, Cur(t).arg, TRUE, Dropped)
    /\ Continue(t, Enqueued(h, t, Cur(t).req, Cur(t).arg))
    /\ UNCHANGED <<flag, autocommit, connectOK, lockHeld, exception, wpc, cur,
                   rows, conn, table, committed, fileExists, budget>>

\* SqliteDb.get_tablenames (lines 76-83), the read-only branch of __init__:
\* sqlite3.connect(filename) in the calling thread (line 80); the frame is at
\* "probe" while it holds this connection of its own
get_tablenames(t) ==
    /\ Busy(t) /\ c[t].st = "run" /\ Cur(t).fn = "get_tablenames"
    /\ c' = [c EXCEPT ![t].st = "probe"]
    /\ UNCHANGED <<flag, autocommit, connectOK, lockHeld, exception, reqs, sinks,
                   wpc, cur, rows, conn, table, committed, handle, fileExists,
                   out, budget, h>>

\* lines 81-83: the names are fetched over that connection and returned; the
\* connection goes with the frame (the with block commits, it does not close)
get_tablenames_return(t) ==
    /\ Busy(t) /\ c[t].st = "probe"
    /\ Continue(t, h)
    /\ UNCHANGED <<flag, autocommit, connectOK, lockHeld, exception, reqs, sinks,
                   wpc, cur, rows, conn, table, committed, fileExists, budget>>

\* self.conn = None of SqliteDb.close (line 96)
conn_none(t) ==
    /\ Busy(t) /\ c[t].st = "run" /\ Cur(t).fn = "conn_none"
    /\ handle' = None
    /\ IF Len(c[t].pend) = 1
       THEN /\ c' = [c EXCEPT ![t] = Idle]
            /\ out' = [out EXCEPT ![t] = Outcome(c[t].op, c[t].args, "return", None)]
       ELSE /\ c' = [c EXCEPT ![t].pend = Tail(@)]
            /\ UNCHANGED out
    /\ UNCHANGED <<flag, autocommit, connectOK, lockHeld, exception, reqs, sinks,
                   wpc, cur, rows, conn, table, committed, fileExists, budget, h>>

\* os.remove(self.filename) of terminate (lines 109-113)
os_remove(t) ==
    /\ Busy(t) /\ c[t].st = "run" /\ Cur(t).fn = "os.remove"
    /\ fileExists' = FALSE
    /\ Continue(t, h)
    /\ UNCHANGED <<flag, autocommit, connectOK, lockHeld, exception, reqs, sinks,
                   wpc, cur, rows, conn, table, committed, budget>>

\* self.conn.<method> where self.conn is None
AttributeError(t) ==
    /\ Busy(t) /\ c[t].st = "run"
    /\ ConnIsNone(t)
    /\ Cur(t).fn # "SqliteDb.commit"
    /\ Return(t, "raise", "AttributeError", h)
    /\ UNCHANGED <<flag, autocommit, connectOK, lockHeld, exception, reqs, sinks,
                   wpc, cur, rows, conn, table, committed, fileExists, budget>>

(* ---------------- caller threads: the calls they start ---------------- *)

\* caller t may start a call on the handle
Ready(t) ==
    /\ ~Busy(t)
    /\ handle \in {"engine", None}
    /\ budget[t] > 0

\* history after caller t has started a call
Started(t) ==
    IF t = "A" THEN [h EXCEPT !.exp = [@ EXCEPT ![t] = <<>>]]
    ELSE [h EXCEPT !.exp = [@ EXCEPT ![t] = <<>>], !.solo = FALSE, !.dict = Void]

\* caller t starts call op(args), which has the steps pend to go through
Start(t, op, args, pend) ==
    /\ budget' = [budget EXCEPT ![t] = @ - 1]
    /\ c' = [c EXCEPT ![t] = Frame(op, args, pend)]
    /\ h' = Started(t)
    /\ UNCHANGED <<flag, autocommit, connectOK, lockHeld, exception, reqs, sinks,
                   wpc, cur, rows, conn, table, committed, handle, fileExists,
                   out>>

\* caller t calls op(args), which ends at once
Ends(t, op, args, kind, val) ==
    /\ budget' = [budget EXCEPT ![t] = @ - 1]
    /\ out' = [out EXCEPT ![t] = Outcome(op, args, kind, val)]
    /\ h' = Started(t)
    /\ UNCHANGED <<flag, autocommit, connectOK, lockHeld, exception, reqs, sinks,
                   wpc, cur, rows, conn, table, committed, handle, fileExists,
                   c>>

\* a flag check that tests for the wrong flag
ReadOnly_wrong_flag == flag = "w"

\* the flag check that opens every mutating method
ReadOnly == flag = "r"

\* SqliteDict.__getitem__(key)
SqliteDict_getitem(t, key) ==
    /\ Ready(t)
    /\ Start(t, "__getitem__", <<key>>,
             Via(<<Call("select_one", "GET_ITEM", <<identity(key)>>)>>))

\* SqliteDict.__contains__(key)
SqliteDict_contains(t, key) ==
    /\ Ready(t)
    /\ Start(t, "__contains__", <<key>>,
             Via(<<Call("select_one", "HAS_ITEM", <<identity(key)>>)>>))

\* SqliteDict.__setitem__(key, value)
SqliteDict_setitem(t, key, value) ==
    /\ Ready(t)
    /\ IF ReadOnly
       THEN Ends(t, "__setitem__", <<key, value>>, "raise", "RuntimeError")
       ELSE Start(t, "__setitem__", <<key, value>>,
                  Via(<<Call("execute", "ADD_ITEM",
                             <<identity(key), encode(value)>>)>>)
                  \o (IF autocommit THEN SqliteDb_commit ELSE <<>>))

\* SqliteDict.__delitem__(key)
SqliteDict_delitem(t, key) ==
    /\ Ready(t)
    /\ IF ReadOnly
       THEN Ends(t, "__delitem__", <<key>>, "raise", "RuntimeError")
       ELSE Start(t, "__delitem__", <<key>>,
                  Via(<<Call("select_one", "HAS_ITEM", <<identity(key)>>)>>)
                  \o Via(<<Call("execute", "DEL_ITEM", <<identity(key)>>)>>)
                  \o (IF autocommit THEN SqliteDb_commit ELSE <<>>))

RECURSIVE Encoded(_)
\* the encoded pairs of line 174
Encoded(items) ==
    IF items = <<>> THEN <<>>
    ELSE <<<<identity(Head(items)[1]), encode(Head(items)[2])>>>>
         \o Encoded(Tail(items))

\* SqliteDict.update(items)
SqliteDict_update(t, items) ==
    /\ Ready(t)
    /\ IF ReadOnly
       THEN Ends(t, "update", items, "raise", "RuntimeError")
       ELSE Start(t, "update", items,
                  Via(executemany("UPDATE_ITEMS", Encoded(items)))
                  \o (IF autocommit THEN SqliteDb_commit ELSE <<>>))

\* SqliteDict.clear()
SqliteDict_clear(t) ==
    /\ Ready(t)
    /\ IF ReadOnly
       THEN Ends(t, "clear", <<>>, "raise", "RuntimeError")
       ELSE Start(t, "clear", <<>>, clear)

\* SqliteDict.keys(): the whole of iterkeys
SqliteDict_keys(t) ==
    /\ Ready(t)
    /\ Start(t, "keys", <<>>, Via(<<Call("select", "GET_KEYS", <<>>)>>))

\* the steps of SqliteDb.close(force=False) (lines 92-96)
SqliteDb_close_steps ==
    IF handle # None
    THEN (IF autocommit THEN Via(commit(TRUE)) ELSE <<>>)
         \o Via(close(FALSE)) \o <<Call("conn_none", None, <<>>)>>
    ELSE <<>>

\* SqliteDb.close()
SqliteDb_close(t) ==
    /\ Ready(t)
    /\ IF SqliteDb_close_steps = <<>>
       THEN Ends(t, "close", <<>>, "return", None)
       ELSE Start(t, "close", <<>>, SqliteDb_close_steps)

\* SqliteDb.terminate()
SqliteDb_terminate(t) ==
    /\ Ready(t)
    /\ IF ReadOnly
       THEN Ends(t, "terminate", <<>>, "raise", "RuntimeError")
       ELSE Start(t, "terminate", <<>>,
                  SqliteDb_close_steps \o <<Call("os.remove", None, <<>>)>>)

\* SqliteDb.commit() / sync()
SqliteDb_sync(t) ==
    /\ Ready(t)
    /\ Start(t, "commit", <<>>, SqliteDb_commit)

\* calls made on the engine itself, d.conn (SqliteMultithread's own methods)
SqliteMultithread_execute(t, req, arg) ==
    /\ Ready(t)
    /\ handle = "engine"
    /\ Start(t, "conn.execute", <<>>, <<Call("execute", req, arg)>>)

SqliteMultithread_select_one(t, req, arg) ==
    /\ Ready(t)
    /\ handle = "engine"
    /\ Start(t, "conn.select_one", <<>>, <<Call("select_one", req, arg)>>)

SqliteMultithread_select(t, req, arg) ==
    /\ Ready(t)
    /\ handle = "engine"
    /\ Start(t, "conn.select", <<>>, <<Call("select", req, arg)>>)

SqliteMultithread_commit(t, blocking) ==
    /\ Ready(t)
    /\ handle = "engine"
    /\ Start(t, IF blocking THEN "conn.commit" ELSE "conn.commit.nowait", <<>>,
             commit(blocking))

SqliteMultithread_close(t, force) ==
    /\ Ready(t)
    /\ handle = "engine"
    /\ Start(t, IF force THEN "conn.close.force" ELSE "conn.close", <<>>,
             close(force))

\* the item lists update is called with
Items == {<<<<"k2", 1>>, <<"k1", 2>>>>}

\* the statements given to the engine's own execute and select_one: a write
\* and a read of the table, and a statement sqlite rejects
RawWrites == {[req |-> "ADD_ITEM", arg |-> <<"k1", encode(2)>>],
              [req |-> BOGUS, arg |-> <<>>]}

RawReads == {[req |-> "GET_ITEM", arg |-> <<"k1">>],
             [req |-> BOGUS, arg |-> <<>>]}

(* ---------------- specifications ---------------- *)

\* steps of a call in progress that every use of the handle can reach
steps(t) ==
    \/ execute(t)
    \/ select(t)
    \/ res_get(t)
    \/ get_tablenames(t)
    \/ get_tablenames_return(t)

\* two caller threads reading, writing and deleting items of the mapping
Next ==
    \/ run_loop
    \/ \E t \in Callers :
        \/ steps(t)
        \/ \E key \in Keys : SqliteDict_getitem(t, key)
        \/ \E key \in Keys, value \in Values : SqliteDict_setitem(t, key, value)
        \/ \E key \in Keys : SqliteDict_delitem(t, key)

Spec == Init /\ [][Next]_vars

\* one caller thread using every method of the mapping, one call after another
InitSeq == Constructing /\ budget = [t \in Callers |-> IF t = "A" THEN MaxCalls + 1 ELSE 0]

NextSeq ==
    \/ run
    \/ \E t \in Callers :
        \/ steps(t)
        \/ check_raise_error(t)
        \/ join(t)
        \/ conn_none(t)
        \/ os_remove(t)
        \/ AttributeError(t)
        \/ \E key \in Keys : SqliteDict_getitem(t, key)
        \/ \E key \in Keys : SqliteDict_contains(t, key)
        \/ \E key \in Keys, value \in Values : SqliteDict_setitem(t, key, value)
        \/ \E key \in Keys : SqliteDict_delitem(t, key)
        \/ \E items \in Items : SqliteDict_update(t, items)
        \/ SqliteDict_clear(t)
        \/ SqliteDict_keys(t)
        \/ SqliteDb_close(t)
        \/ SqliteDb_terminate(t)
        \/ SqliteDb_sync(t)

SpecSeq == InitSeq /\ [][NextSeq]_vars

\* two caller threads using the engine of the handle, d.conn, directly
NextEngine ==
    \/ run
    \/ \E t \in Callers :
        \/ steps(t)
        \/ join(t)
        \/ close_force(t)
        \/ \E w \in RawWrites : SqliteMultithread_execute(t, w.req, w.arg)
        \/ \E r \in RawReads : SqliteMultithread_select_one(t, r.req, r.arg)
        \/ SqliteMultithread_select(t, "GET_KEYS", <<>>)
        \/ \E blocking \in BOOLEAN : SqliteMultithread_commit(t, blocking)
        \/ \E force \in BOOLEAN : SqliteMultithread_close(t, force)

SpecEngine == Init /\ [][NextEngine]_vars

\* one caller thread inserting, deleting and listing keys
InitIter ==
    Constructing /\ budget = [t \in Callers |-> IF t = "A" THEN MaxCalls + 2 ELSE 0]

NextIter ==
    \/ run_loop
    \/ \E t \in Callers :
        \/ steps(t)
        \/ \E key \in Keys : SqliteDict_setitem(t, key, 1)
        \/ \E key \in Keys : SqliteDict_delitem(t, key)
        \/ SqliteDict_keys(t)

SpecIter == InitIter /\ [][NextIter]_vars

\* a file that holds two rows
TwoRows == <<Row("k1", encode(1)), Row("k2", encode(2))>>

\* two caller threads reading a table of two rows through the engine, with
\* select_one (which lets go of its result queue after the first row) and
\* select
InitSink == ConstructingOver({TwoRows}) /\ budget \in Budgets

NextSink ==
    \/ run_loop
    \/ \E t \in Callers :
        \/ steps(t)
        \/ SqliteMultithread_select_one(t, "GET_KEYS", <<>>)
        \/ SqliteMultithread_select_one(t, "GET_ITEM", <<"k1">>)
        \/ SqliteMultithread_select(t, "GET_KEYS", <<>>)

SpecSink == InitSink /\ [][NextSink]_vars

\* two caller threads updating the mapping in bulk and listing its keys while
\* statements given to the engine fail
NextBulk ==
    \/ run_loop
    \/ \E t \in Callers :
        \/ steps(t)
        \/ check_raise_error(t)
        \/ SqliteMultithread_execute(t, BOGUS, <<>>)
        \/ \E items \in Items : SqliteDict_update(t, items)
        \/ SqliteDict_keys(t)

SpecBulk == Init /\ [][NextBulk]_vars

(* ---------------- properties ---------------- *)

\* the requests the worker has not begun are in the queue in the order of
\* their enqueueing, right after the one it began last
InOrder == \A i \in 1..Len(reqs) : reqs[i].id = h.started + i

\* the worker is between requests / holds one request it has not finished
Between == h.finished = h.started

Holding == h.finished = h.started - 1 /\ cur.id = h.started

\* C1: the worker begins the requests in exactly the order of their
\* enqueueing, over all caller threads and all kinds of request, begins one
\* only when the one before it is finished (executed, rows and end marker
\* delivered), and never holds more than one request.
C1_fifo_total_order ==
    /\ InOrder
    /\ h.started <= h.nreq
    /\ Between \/ Holding
    /\ wpc \in {"connect", "get", "done"} => Between
    /\ wpc \in {"rows", "close", "closed"} => Holding

\* the worker delivers the rows of a request of B while a request that A
\* enqueued later waits behind it
C1_witness ==
    /\ wpc = "rows"
    /\ cur.by = "B"
    /\ Len(reqs) > 0
    /\ reqs[1].by = "A"
    /\ h.finished > 0

\* caller t has completed call op and has started nothing since
Completed(t, op) == ~Busy(t) /\ out[t].op = op

\* C2: a __getitem__(k) enqueued after the __setitem__(k, v) of another
\* thread has returned, with no other write to k enqueued in between,
\* returns v, with and without autocommit.
C2_read_after_write ==
    \A t \in Callers :
        (Completed(t, "__getitem__") /\ Len(h.exp[t]) # 0)
            => (out[t].kind = "return" /\ out[t].val = h.exp[t][1])

\* B has read the value A has set, on a handle without autocommit: the write
\* is in the table of the connection and not in the file
C2_witness ==
    /\ ~autocommit
    /\ Completed("B", "__getitem__")
    /\ Completed("A", "__setitem__")
    /\ h.exp["B"] = <<out["A"].args[2]>>
    /\ out["B"].kind = "return"
    /\ out["B"].val = out["A"].args[2]
    /\ table # committed

\* C3: when a statement enqueued without a result queue by one caller has
\* raised on the worker, the entry check of the next engine call of another
\* caller re-raises the error (as long as nobody has re-raised it before).
C3_deferred_error_delivery ==
    \A t \in Callers :
        (t # h.failedBy /\ h.check[t].at = "entry") => h.check[t].raised

\* A's fire-and-forget statement has raised on the worker, and B has since
\* made a call whose entry check found nothing to raise
C3_witness ==
    /\ h.failedBy = "A"
    /\ cur.req = BOGUS
    /\ cur.res_ref = NoneRef
    /\ h.check["B"] = [at |-> "entry", raised |-> FALSE]
    /\ out["A"] = Outcome("conn.execute", <<>>, "return", None)

\* C4: never more errors are re-raised than statements have raised, and once
\* a caller has checked the slot after a failure every failure has been
\* re-raised.
C4_exactly_once_delivery ==
    /\ h.nraise <= h.nfail
    /\ (\E t \in Callers : h.check[t].at # None) => h.nraise = h.nfail

\* a statement has raised, a caller has checked the slot afterwards, and
\* nothing has been re-raised to anybody
C4_witness ==
    /\ h.nfail = 1
    /\ h.nraise = 0
    /\ \E t \in Callers : h.check[t].at # None
    /\ \A t \in Callers : out[t].kind # "raise"

\* C5: after a statement has raised, the worker is still in its loop (or has
\* left it for a close request), and the error is in the slot until a caller
\* retrieves it.
C5_failure_not_fatal ==
    h.nfail > 0 => (wpc # "dead" /\ (h.owed => exception # None))

\* the worker thread has ended on a failed statement, the slot is empty and a
\* request enqueued after the failing one is left in the queue
C5_witness ==
    /\ h.nfail > 0
    /\ wpc = "dead"
    /\ exception = None
    /\ reqs # <<>>
    /\ conn = "open"

\* the result queue of request number i holds rows and then at most one end
\* marker
WellFormed(i) ==
    \A j \in 1..Len(sinks[i].items) :
        ~sinks[i].items[j].more => j = Len(sinks[i].items)

\* C6: every result queue receives rows and then one end marker, and the
\* worker never drops a request whose caller waits on its result queue: a
\* caller waiting for a request the worker has begun is served by a worker
\* that is still at work on it, or finds the end marker in its queue.
C6_end_marker_always ==
    /\ \A i \in 1..Len(sinks) : WellFormed(i)
    /\ \A t \in Callers :
          (c[t].st = "recv" /\ c[t].rid <= h.started
              /\ cur.req # _REQUEST_CLOSE /\ Cur(t).req # _REQUEST_CLOSE)
          => \/ sinks[c[t].rid].items # <<>>
             \/ (cur.id = c[t].rid /\ wpc = "rows")

\* a caller is blocked in select_one on a statement that raised: the worker
\* thread has ended without putting the end marker
C6_witness ==
    \E t \in Callers :
        /\ c[t].st = "recv"
        /\ c[t].op = "conn.select_one"
        /\ cur.id = c[t].rid
        /\ cur.req = BOGUS
        /\ wpc = "dead"
        /\ sinks[c[t].rid] = Queue

\* C7: when close(force=False) has returned to caller t, the worker has taken
\* t's close request after finishing every request enqueued before it, has
\* closed the connection, has put the end marker and its thread has ended;
\* and the end marker of a close request is in no result queue while the
\* connection is open.
C7_close_waits ==
    /\ \A t \in Callers :
          (Completed(t, "conn.close") /\ out[t].kind = "return")
          => /\ wpc = "done"
             /\ conn = "closed"
             /\ cur.req = _REQUEST_CLOSE
             /\ cur.by = t
             /\ h.started = cur.id
             /\ h.finished = cur.id
    /\ \A t \in Callers :
          (c[t].st = "recv" /\ Cur(t).req = _REQUEST_CLOSE
              /\ sinks[c[t].rid].items # <<>>)
          => conn = "closed"

\* B's close has returned after the worker had run the statement A had
\* enqueued before it
C7_witness ==
    /\ Completed("B", "conn.close")
    /\ out["B"].kind = "return"
    /\ Completed("A", "conn.execute")
    /\ cur.by = "B"
    /\ h.finished = h.nreq
    /\ wpc = "done"

\* SqliteDb.__init__ has returned the handle to its caller
Constructed == handle \notin {"init", "failed"}

C9_round_trip ==
    \A t \in Callers :
        (h.solo /\ handle = "engine")
        => /\ Completed(t, "__getitem__")
              => IF Len(h.dict[out[t].args[1]]) # 0
                 THEN /\ out[t].kind = "return"
                      /\ out[t].val = h.dict[out[t].args[1]][1]
                 ELSE /\ out[t].kind = "raise"
                      /\ out[t].val = "KeyError"
           /\ Completed(t, "__contains__")
              => /\ out[t].kind = "return"
                 /\ out[t].val = (Len(h.dict[out[t].args[1]]) # 0)

\* a get has returned the value 2, which only a set or an update can have
\* written, on a handle whose file held the value 1 for k1
C9_witness ==
    /\ h.solo
    /\ handle = "engine"
    /\ flag = "c"
    /\ Completed("A", "__getitem__")
    /\ out["A"] = Outcome("__getitem__", <<"k1">>, "return", 2)
    /\ h.nreq >= 4

\* the methods that change the mapping or remove its file
Mutators == {"__setitem__", "__delitem__", "update", "clear", "terminate"}

\* the method caller t calls in this step, "idle" when it calls none
Calling(t) ==
    IF budget'[t] = budget[t] THEN "idle"
    ELSE IF c'[t].op # "idle" THEN c'[t].op ELSE out'[t].op

\* caller t calls a mutator in this step and is refused: RuntimeError at
\* once, nothing enqueued, table, file, worker and connection as they were
Refused(t) ==
    /\ c'[t] = Idle
    /\ out'[t].kind = "raise"
    /\ out'[t].val = "RuntimeError"
    /\ UNCHANGED <<reqs, sinks, exception, lockHeld, wpc, cur, rows, conn,
                   table, committed, handle, fileExists>>

\* reads of a read-only handle that is open end as on any other handle
ReadsServed ==
    \A t \in Callers :
        (flag = "r" /\ handle = "engine")
        => /\ Completed(t, "keys") => out[t].kind = "return"
           /\ Completed(t, "__getitem__") =>
                 out[t].kind = "return" \/ out[t].val = "KeyError"
           /\ Completed(t, "__contains__") => out[t].kind = "return"

\* C10: with flag 'r' every call of __setitem__, __delitem__, update, clear
\* or terminate raises RuntimeError in the calling step, enqueues nothing and
\* changes neither the table, the file, the worker nor the connection, while
\* __getitem__ and keys are served.
C10_read_only_guard ==
    [][/\ \A t \in Callers :
             (flag = "r" /\ Calling(t) \in Mutators) => Refused(t)
       /\ ReadsServed']_vars

\* on a read-only handle a read has been served and a mutator refused, and
\* the table still holds what the file held
C10_witness ==
    /\ flag = "r"
    /\ handle = "engine"
    /\ Completed("A", "update")
    /\ out["A"].val = "RuntimeError"
    /\ h.finished > 0
    /\ h.nreq = h.finished
    /\ table = committed
    /\ table # <<>>
    /\ wpc = "get"

\* what a handle opened on a file holding the rows tbl reads for key k
Stored(tbl, k) ==
    IF HasKey(tbl, k) THEN <<decode(Select(tbl, k)[1].value)>> ELSE <<>>

\* C11: when commit() has returned on an open handle, the file holds every
\* write made on the handle before it, so a handle opened on the file reads
\* those values; and the result queue of a commit request never holds a row.
C11_commit_durable ==
    /\ \A t \in Callers :
          (h.solo /\ handle = "engine" /\ Completed(t, "commit")
              /\ out[t].kind = "return")
          => \A k \in Keys : Stored(committed, k) = h.dict[k]
    /\ \A t \in Callers :
          (c[t].st = "recv" /\ Cur(t).req = _REQUEST_COMMIT)
          => /\ c[t].got = <<>>
             /\ \A j \in 1..Len(sinks[c[t].rid].items) :
                   ~sinks[c[t].rid].items[j].more

\* without autocommit, commit() has returned after a write of k2, which no
\* file holds at the start, and the file now holds it
C11_witness ==
    /\ ~autocommit
    /\ handle = "engine"
    /\ Completed("A", "commit")
    /\ out["A"].kind = "return"
    /\ Len(h.dict["k2"]) # 0
    /\ Stored(committed, "k2") = h.dict["k2"]

\* caller t holds a connection to the file that it opened itself
Probing(t) == c[t].st = "probe"

\* connections to the file that are open
Live ==
    (IF conn = "open" THEN 1 ELSE 0) + Cardinality({t \in Callers : Probing(t)})

WorkerOwnsConn ==
    conn' # conn
    => /\ c' = c
       /\ \/ conn = "none" /\ conn' = "open" /\ wpc = "connect"
          \/ conn = "open" /\ conn' = "closed" /\ wpc = "close"

Awaiting(t) == c[t].st = "recv" /\ c[t].rid = cur.id

\* C14: when the statement of a select or select_one has raised on the
\* worker, the caller that waits for it gets the end marker and nothing else,
\* its call returns without raising, and the error is still in the slot.
C14_failed_select_returns ==
    \A t \in Callers :
        (h.nfail > 0 /\ cur.req = BOGUS /\ cur.res_ref # NoneRef /\ cur.by = t)
        => /\ Awaiting(t)
              => (wpc = "rows" \/ sinks[cur.id].items = <<NoMore>>)
           /\ (~Busy(t) /\ h.nreq = cur.id)
              => (h.owed /\ out[t].kind = "return" /\ exception # None)

\* the statement of a select_one has raised, nothing is in the slot, nothing
\* is in the caller's result queue and the thread that would fill it has ended
C14_witness ==
    \E t \in Callers :
        /\ Awaiting(t)
        /\ h.owed
        /\ h.failedBy = t
        /\ cur.res_ref # NoneRef
        /\ exception = None
        /\ sinks[cur.id].items = <<>>
        /\ wpc = "dead"
        /\ ~lockHeld

\* the keys of the rows tbl, in row order
Listed(tbl) == [i \in 1..Len(tbl) |-> identity(tbl[i].key)]

\* the worker is delivering to a result queue its caller has let go of
Abandoned == wpc = "rows" /\ ~sinks[cur.res_ref].alive

\* C15: nothing is ever put on a result queue its caller has let go of; when
\* the worker finds the queue of its request gone it delivers no further row
\* of that request and leaves the request queue as it is; and every select
\* that completes, before or after, has received all rows of the table.
C15_abandoned_sink ==
    [][/\ \A i \in 1..Len(sinks') :
             /\ ~sinks'[i].alive => sinks'[i].items = <<>>
             /\ \A j \in 1..Len(sinks'[i].items) :
                   ~sinks'[i].items[j].more => j = Len(sinks'[i].items)
       /\ (Abandoned /\ (rows' # rows \/ wpc' # wpc))
          => (rows' = <<>> /\ sinks' = sinks /\ reqs' = reqs /\ cur' = cur
              /\ wpc' \in {"rows", "get"})
       /\ \A t \in Callers :
             (Completed(t, "conn.select") /\ Constructed)'
             => (out'[t].kind = "return" /\ out'[t].val = Listed(table'))]_vars

\* B's select_one has taken the first key and let go of its queue while the
\* worker still has the second key to deliver, and A waits for its select
C15_witness ==
    /\ Abandoned
    /\ rows # <<>>
    /\ cur.by = "B"
    /\ Completed("B", "conn.select_one")
    /\ c["A"].st = "recv"
    /\ c["A"].op = "conn.select"
    /\ Len(reqs) = 1

\* caller t is inside update
Batch(t) == Busy(t) /\ c[t].op = "update"

\* the items of the batch caller t has still to submit
Remaining(t) ==
    Cardinality({i \in 1..Len(c[t].pend) : c[t].pend[i].fn = "execute"})

\* the number, in the list update was called with, of the item caller t
\* submits next
ItemNo(t) == Len(c[t].args) - Remaining(t) + 1

Writers == {"__setitem__", "__delitem__", "update"}

\* C17: with autocommit the worker leaves no statement uncommitted, and when
\* a __setitem__, __delitem__ or update returns, its write has been executed
\* and committed: the file holds the mapping as the calls returned so far
\* leave it.
C17_autocommit ==
    autocommit =>
       /\ committed = table
       /\ \A t \in Callers :
             (h.solo /\ handle = "engine" /\ ~Busy(t) /\ out[t].op \in Writers
                 /\ out[t].kind = "return")
             => \A k \in Keys : Stored(committed, k) = h.dict[k]

\* with autocommit, update has returned and the file holds both of its items
C17_witness ==
    /\ autocommit
    /\ handle = "engine"
    /\ Completed("A", "update")
    /\ out["A"].kind = "return"
    /\ Stored(committed, "k2") = <<1>>
    /\ Stored(committed, "k1") = <<2>>

\* the two control requests
Sentinels == {_REQUEST_COMMIT, _REQUEST_CLOSE}

\* the requests on the queue and the one the worker took last
InFlight == {reqs[i] : i \in 1..Len(reqs)} \cup {cur}

\* C18 as stated: every commit and close request carries no parameters and a
\* reference to a result queue, whichever way it was issued.
C18_sentinel_has_sink ==
    \A r \in InFlight :
        r.req \in Sentinels => (r.arg = <<>> /\ r.res_ref # NoneRef)

\* C18: every commit and close request is put without parameters; it carries
\* a reference to a result queue unless it is the commit of
\* commit(blocking=False), which carries none; the queue is one its caller
\* waits on unless the request is the close of close(force=True), whose queue
\* nothing holds; and no close request ends the worker for want of a
\* reference.
C18_sentinel_shape ==
    [][/\ Len(reqs') > Len(reqs) =>
            LET r == reqs'[Len(reqs')] IN
            r.req \in Sentinels =>
               /\ r.arg = <<>>
               /\ (r.res_ref = NoneRef) <=> (c[r.by].op = "conn.commit.nowait")
               /\ r.res_ref # NoneRef =>
                     (sinks'[r.res_ref].alive <=> c[r.by].op # "conn.close.force")
       /\ cur'.req = _REQUEST_CLOSE => wpc' # "dead"]_vars

\* a commit without a result queue was issued, and the worker has taken the
\* close request of a forced close and ended its loop
C18_witness ==
    /\ \E t \in Callers : out[t].op = "conn.commit.nowait"
    /\ cur.req = _REQUEST_CLOSE
    /\ ~sinks[cur.res_ref].alive
    /\ cur.id = h.nreq
    /\ wpc = "done"

\* both callers have completed __delitem__(k), each as its only call
BothDeleted(k) ==
    \A t \in Callers :
        Completed(t, "__delitem__") /\ out[t].args = <<k>> /\ budget[t] = 0

====
